---- MODULE Spec2Model ----
(***************************************************************************)
(* A model of cc-wc (src/src/main.rs): a word-count utility.  main parses  *)
(* the command line into modes and filenames, opens every source, counts   *)
(* each source with count_buf, formats the results with format_summary and *)
(* prints the report.                                                      *)
(*                                                                         *)
(* Strings are sequences of one-character strings, byte streams are        *)
(* sequences of byte values 0..255, Option<T> is a sequence of length at   *)
(* most one (None == <<>>, Some(x) == <<x>>).                              *)
(***************************************************************************)
EXTENDS Integers, Sequences, FiniteSets

(***************************************************************************)
(* Bounds of the model.                                                    *)
(***************************************************************************)
\* longest command line (number of arguments after the program name)
MaxArgs == 3
\* longest enumerated byte stream handed to count_buf
MaxLen == 5
\* most results handed to format_summary when it is exercised on its own
MaxResults == 2
\* longest mode list handed to format_summary when it is exercised on its own
MaxModes == 2

(***************************************************************************)
(* Generic helpers.                                                        *)
(***************************************************************************)
SeqsUpTo(S, n) == UNION {[1..k -> S] : k \in 0..n}

None == <<>>
Some(x) == <<x>>

LF == 10

(***************************************************************************)
(* enum Mode, derive(Ord): Lines < Words < Chars < Bytes.                  *)
(***************************************************************************)
Mode == {"Lines", "Words", "Chars", "Bytes"}

ModeOrd(m) ==
    CASE m = "Lines" -> 0
      [] m = "Words" -> 1
      [] m = "Chars" -> 2
      [] m = "Bytes" -> 3

\* Mode::from_str
from_str(mode_str) ==
    CASE mode_str = <<"-", "l">> -> Some("Lines")
      [] mode_str = <<"-", "w">> -> Some("Words")
      [] mode_str = <<"-", "m">> -> Some("Chars")
      [] mode_str = <<"-", "c">> -> Some("Bytes")
      [] OTHER -> None

(***************************************************************************)
(* struct CountResult and its Default.                                     *)
(***************************************************************************)
DefaultCountResult ==
    [summary |-> None, lines |-> 0, words |-> 0, chars |-> 0, bytes |-> 0]

\* CountResult::result_from_mode
result_from_mode(result, mode) ==
    CASE mode = "Lines" -> result.lines
      [] mode = "Words" -> result.words
      [] mode = "Chars" -> result.chars
      [] mode = "Bytes" -> result.bytes

(***************************************************************************)
(* BufRead::read_until(b'\n', &mut line_buf): the bytes from the read      *)
(* position up to and including the first line feed, or up to the end of   *)
(* the stream when there is none.  The empty segment means end of stream.  *)
(***************************************************************************)
\* variant: fixed chunks of two bytes instead of lines
SegEnd_Chunk(data, pos) == IF pos + 1 <= Len(data) THEN pos + 1 ELSE Len(data)

SegEnd(data, pos) ==
    IF \E i \in pos..Len(data) : data[i] = LF
    THEN CHOOSE i \in pos..Len(data) :
            /\ data[i] = LF
            /\ \A j \in pos..(i - 1) : data[j] # LF
    ELSE Len(data)

read_until(data, pos) == SubSeq(data, pos, SegEnd(data, pos))

(***************************************************************************)
(* String::from_utf8: the sequence of decoded scalar values, or Invalid.   *)
(* The well-formed byte sequences are those of the Unicode standard, which *)
(* the standard library validates exactly.                                 *)
(***************************************************************************)
\* the decoding error; no decoded text contains a negative scalar value
Invalid == <<-1>>

IsCont(b) == b >= 128 /\ b <= 191

\* number of bytes of the well-formed sequence starting at bytes[i], 0 if none
SeqWidth(bytes, i) ==
    LET n  == Len(bytes)
        b0 == bytes[i]
        b1 == IF i + 1 <= n THEN bytes[i + 1] ELSE 0
        b2 == IF i + 2 <= n THEN bytes[i + 2] ELSE 0
        b3 == IF i + 3 <= n THEN bytes[i + 3] ELSE 0
    IN  CASE b0 <= 127 -> 1
          [] b0 >= 194 /\ b0 <= 223 -> IF IsCont(b1) THEN 2 ELSE 0
          [] b0 = 224 -> IF b1 >= 160 /\ b1 <= 191 /\ IsCont(b2) THEN 3 ELSE 0
          [] (b0 >= 225 /\ b0 <= 236) \/ b0 = 238 \/ b0 = 239 ->
                IF IsCont(b1) /\ IsCont(b2) THEN 3 ELSE 0
          [] b0 = 237 -> IF b1 >= 128 /\ b1 <= 159 /\ IsCont(b2) THEN 3 ELSE 0
          [] b0 = 240 ->
                IF b1 >= 144 /\ b1 <= 191 /\ IsCont(b2) /\ IsCont(b3) THEN 4 ELSE 0
          [] b0 >= 241 /\ b0 <= 243 ->
                IF IsCont(b1) /\ IsCont(b2) /\ IsCont(b3) THEN 4 ELSE 0
          [] b0 = 244 ->
                IF b1 >= 128 /\ b1 <= 143 /\ IsCont(b2) /\ IsCont(b3) THEN 4 ELSE 0
          [] OTHER -> 0

\* the scalar value encoded by the w bytes starting at bytes[i]
ScalarAt(bytes, i, w) ==
    CASE w = 1 -> bytes[i]
      [] w = 2 -> (bytes[i] - 192) * 64 + (bytes[i + 1] - 128)
      [] w = 3 -> (bytes[i] - 224) * 4096 + (bytes[i + 1] - 128) * 64
                    + (bytes[i + 2] - 128)
      [] w = 4 -> (bytes[i] - 240) * 262144 + (bytes[i + 1] - 128) * 4096
                    + (bytes[i + 2] - 128) * 64 + (bytes[i + 3] - 128)

RECURSIVE DecodeFrom(_, _)
DecodeFrom(bytes, i) ==
    IF i > Len(bytes) THEN <<>>
    ELSE LET w == SeqWidth(bytes, i)
         IN  IF w = 0 THEN Invalid
             ELSE LET rest == DecodeFrom(bytes, i + w)
                  IN  IF rest = Invalid THEN Invalid
                      ELSE <<ScalarAt(bytes, i, w)>> \o rest

from_utf8(bytes) == DecodeFrom(bytes, 1)

(***************************************************************************)
(* char::is_whitespace: the Unicode White_Space property.                  *)
(***************************************************************************)
is_whitespace(c) ==
    \/ c >= 9 /\ c <= 13
    \/ c = 32
    \/ c = 133
    \/ c = 160
    \/ c = 5760
    \/ c >= 8192 /\ c <= 8202
    \/ c = 8232
    \/ c = 8233
    \/ c = 8239
    \/ c = 8287
    \/ c = 12288

(***************************************************************************)
(* s.split_whitespace().count(): scan the text, counting a token each time *)
(* a run of non-whitespace characters ends.                                *)
(***************************************************************************)
RECURSIVE SplitCount(_, _, _)
SplitCount(s, i, inToken) ==
    IF i > Len(s) THEN (IF inToken THEN 1 ELSE 0)
    ELSE IF is_whitespace(s[i])
         THEN (IF inToken THEN 1 ELSE 0) + SplitCount(s, i + 1, FALSE)
         ELSE SplitCount(s, i + 1, TRUE)

split_whitespace_count(s) == SplitCount(s, 1, FALSE)

\* s.chars().count()
chars_count(s) == Len(s)

(***************************************************************************)
(* sum_results: the row labelled "Total", the field-wise sum.              *)
(***************************************************************************)
TotalLabel == <<"T", "o", "t", "a", "l">>

RECURSIVE SumFrom(_, _, _)
SumFrom(results, i, total) ==
    IF i > Len(results) THEN total
    ELSE SumFrom(results, i + 1,
                 [total EXCEPT !.lines = @ + results[i].lines,
                               !.words = @ + results[i].words,
                               !.chars = @ + results[i].chars,
                               !.bytes = @ + results[i].bytes])

sum_results(results) ==
    SumFrom(results, 1, [DefaultCountResult EXCEPT !.summary = Some(TotalLabel)])

(***************************************************************************)
(* format_summary, step by step.                                           *)
(***************************************************************************)
\* modes.sort(): a stable sort by the derived order
RECURSIVE InsertMode(_, _)
InsertMode(sorted, m) ==
    IF sorted = <<>> THEN <<m>>
    ELSE IF ModeOrd(m) < ModeOrd(Head(sorted))
         THEN <<m>> \o sorted
         ELSE <<Head(sorted)>> \o InsertMode(Tail(sorted), m)

RECURSIVE SortModes(_)
SortModes(modes) ==
    IF modes = <<>> THEN <<>>
    ELSE InsertMode(SortModes(SubSeq(modes, 1, Len(modes) - 1)), modes[Len(modes)])

\* modes.dedup(): drops an element equal to the one before it
RECURSIVE Dedup(_)
Dedup(modes) ==
    IF Len(modes) <= 1 THEN modes
    ELSE IF modes[1] = modes[2]
         THEN Dedup(Tail(modes))
         ELSE <<modes[1]>> \o Dedup(Tail(modes))

\* variant: dedup() without the sort() before it
PrepareModes_NoSort(modes) == Dedup(modes)

PrepareModes(modes) == Dedup(SortModes(modes))

\* variant: the Total row is appended whatever the number of results
WithTotal_Always(results) == Append(results, sum_results(results))

\* if results.len() > 1 { results.push(sum_results(&results)) }
WithTotal(results) ==
    IF Len(results) > 1 THEN Append(results, sum_results(results)) ELSE results

\* output_counts: for every result the counters of the prepared modes
OutputCounts(results, modes) ==
    [r \in 1..Len(results) |->
        [k \in 1..Len(modes) |-> result_from_mode(results[r], modes[k])]]

\* u64::to_string
DigitChar(d) == <<"0", "1", "2", "3", "4", "5", "6", "7", "8", "9">>[d + 1]

RECURSIVE to_string(_)
to_string(n) ==
    IF n < 10 THEN <<DigitChar(n)>>
    ELSE to_string(n \div 10) \o <<DigitChar(n % 10)>>

\* the string lengths of all counts of all rows, flattened
CountLens(counts) ==
    UNION {{Len(to_string(counts[r][k])) : k \in DOMAIN counts[r]} :
              r \in DOMAIN counts}

\* .max(): the greatest length (only called on a non-empty set)
MaxOf(S) == CHOOSE x \in S : \A y \in S : y <= x

\* format!("{:>fill$}", count, fill = max_size): right-aligned, space-padded,
\* never truncated
RECURSIVE Spaces(_)
Spaces(n) == IF n <= 0 THEN <<>> ELSE <<" ">> \o Spaces(n - 1)

\* variant: "{:<fill$}", left-aligned
PadLeft_LeftAlign(s, fill) == s \o Spaces(fill - Len(s))

PadLeft(s, fill) == Spaces(fill - Len(s)) \o s

\* strs.join(sep)
RECURSIVE Join(_, _)
Join(strs, sep) ==
    IF strs = <<>> THEN <<>>
    ELSE IF Len(strs) = 1 THEN strs[1]
    ELSE strs[1] \o sep \o Join(Tail(strs), sep)

\* format!("{} {}", counts.join(" "), summary or "")
FormatRow(counts, result, max_size) ==
    Join([k \in 1..Len(counts) |-> PadLeft(to_string(counts[k]), max_size)], <<" ">>)
        \o <<" ">>
        \o (IF result.summary # None THEN result.summary[1] ELSE <<>>)

\* the panic of .expect("Max value guaranteed as vec is always populated")
Panic == <<"panic">>

format_summary(results0, modes0) ==
    LET modes   == PrepareModes(modes0)
        results == WithTotal(results0)
        counts  == OutputCounts(results, modes)
        lens    == CountLens(counts)
    IN  IF lens = {} THEN Panic
        ELSE LET max_size == MaxOf(lens)
             IN  Join([r \in 1..Len(results) |->
                          FormatRow(counts[r], results[r], max_size)],
                      <<"\n">>)

(***************************************************************************)
(* The environment of a run: the command-line tokens, the files they name  *)
(* and what standard input holds.                                          *)
(***************************************************************************)
FlagTokens == {<<"-", "l">>, <<"-", "w">>, <<"-", "m">>, <<"-", "c">>}

\* "a" and "b" are text files, "z" holds a line that is not UTF-8, "d" is a
\* directory (it opens, reading it fails) and "x" does not exist
FileTokens == {<<"a">>, <<"b">>, <<"z">>, <<"d">>, <<"x">>}

Tokens == FlagTokens \cup FileTokens

\* "foo bar\nbaz\n"
FooBarBaz == <<102, 111, 111, 32, 98, 97, 114, 10, 98, 97, 122, 10>>

FileKind(name) ==
    CASE name = <<"x">> -> "missing"
      [] name = <<"d">> -> "dir"
      [] OTHER -> "stream"

FileData(name) ==
    CASE name = <<"a">> -> <<104, 105, 10>>                  \* "hi\n"
      [] name = <<"b">> -> <<116, 104, 101, 114, 101, 10>>   \* "there\n"
      [] name = <<"z">> -> <<111, 107, 10, 255, 10>>         \* "ok\n", then 0xFF
      [] OTHER -> <<>>

\* "\u{e0}  b\n": 1 line, 2 words, 5 characters, 6 bytes
AGrave == <<195, 160, 32, 32, 98, 10>>

\* what standard input may hold: nothing, the texts above, a text without a
\* final line feed, bytes that are not UTF-8
StdinContents == {<<>>, FooBarBaz, AGrave, <<104, 105>>, <<97, 10, 195>>}

\* the bytes of the enumerated streams: line feed, space, "a", and the bytes
\* of U+00A0 (C2 A0, whitespace) and U+00E0 (C3 A0, a letter)
Alphabet == {10, 32, 97, 160, 194, 195}

Streams == SeqsUpTo(Alphabet, MaxLen) \cup {FooBarBaz}

(***************************************************************************)
(* The state of a run of main.                                             *)
(***************************************************************************)
VARIABLES
    pc,         \* where main is
    args,       \* env::args() after the program name
    argi,       \* the argument the parsing loop is at
    modes,      \* Vec<Mode>
    filenames,  \* Vec<String>
    stdin,      \* the bytes standard input holds
    buffers,    \* Vec<BufferDetails>
    bi,         \* the buffer the counting iterator is at
    pos,        \* count_buf: read position in the stream (1-based)
    line_buf,   \* count_buf: line_buf
    count,      \* count_buf: count
    results,    \* Vec<CountResult>
    summary,    \* the string format_summary returned
    stdout,     \* what was written to standard output, one entry per write
    status,     \* "running", "ok", "err" (main returned Err) or a panic message
    log         \* the opens, reads and writes the run performed, in order

vars == <<pc, args, argi, modes, filenames, stdin, buffers, bi, pos, line_buf,
          count, results, summary, stdout, status, log>>

\* the messages of the three expect() calls
PanicRead == "read_until failed"
PanicUtf8 == "from_utf8 failed"
PanicMax == "Max value guaranteed as vec is always populated"

Event(ev, src, n) == [ev |-> ev, src |-> src, n |-> n]

HasFile(as) == \E i \in 1..Len(as) : from_str(as[i]) = None

Init ==
    /\ pc = "args"
    /\ args \in SeqsUpTo(Tokens, MaxArgs)
    /\ argi = 1
    /\ modes = <<>>
    /\ filenames = <<>>
    /\ stdin \in (IF HasFile(args) THEN {<<>>} ELSE StdinContents)
    /\ buffers = <<>>
    /\ bi = 1
    /\ pos = 1
    /\ line_buf = <<>>
    /\ count = DefaultCountResult
    /\ results = <<>>
    /\ summary = <<>>
    /\ stdout = <<>>
    /\ status = "running"
    /\ log = <<>>

(***************************************************************************)
(* main: argument parsing.                                                 *)
(***************************************************************************)
ParseArg ==
    /\ pc = "args"
    /\ argi <= Len(args)
    /\ LET mode == from_str(args[argi])
       IN  IF mode # None
           THEN /\ modes' = Append(modes, mode[1])
                /\ UNCHANGED filenames
           ELSE /\ filenames' = Append(filenames, args[argi])
                /\ UNCHANGED modes
    /\ argi' = argi + 1
    /\ UNCHANGED <<pc, args, stdin, buffers, bi, pos, line_buf, count, results,
                   summary, stdout, status, log>>

\* variant: all four metrics by default
DefaultModeList_All == <<"Lines", "Words", "Chars", "Bytes">>

DefaultModeList == <<"Lines", "Words", "Bytes">>

\* variant: no default when no flag is given
ModesOrDefault_Keep(ms) == ms

\* if modes.len() == 0 { modes = vec![Lines, Words, Bytes] }
ModesOrDefault(ms) == IF Len(ms) = 0 THEN DefaultModeList ELSE ms

DefaultModes ==
    /\ pc = "args"
    /\ argi > Len(args)
    /\ modes' = ModesOrDefault(modes)
    /\ pc' = "open"
    /\ UNCHANGED <<args, argi, filenames, stdin, buffers, bi, pos, line_buf, count,
                   results, summary, stdout, status, log>>

(***************************************************************************)
(* main: opening the sources.                                              *)
(***************************************************************************)
OpenStdin ==
    /\ pc = "open"
    /\ Len(filenames) = 0
    /\ buffers' = <<[filename |-> None, kind |-> "stream", data |-> stdin]>>
    /\ pc' = "count"
    /\ UNCHANGED <<args, argi, modes, filenames, stdin, bi, pos, line_buf, count,
                   results, summary, stdout, status, log>>

\* the file the opening loop is at
NextToOpen == Len(buffers) + 1

OpenFile ==
    /\ pc = "open"
    /\ NextToOpen <= Len(filenames)
    /\ LET filename == filenames[NextToOpen]
       IN  /\ FileKind(filename) # "missing"
           /\ buffers' = Append(buffers, [filename |-> Some(filename),
                                           kind |-> FileKind(filename),
                                           data |-> FileData(filename)])
           /\ log' = Append(log, Event("open", NextToOpen, 0))
    /\ pc' = IF NextToOpen = Len(filenames) THEN "count" ELSE "open"
    /\ UNCHANGED <<args, argi, modes, filenames, stdin, bi, pos, line_buf, count,
                   results, summary, stdout, status>>

\* variant: a file that does not open is skipped and the run goes on
OpenFail_Skip ==
    /\ pc = "open"
    /\ NextToOpen <= Len(filenames)
    /\ FileKind(filenames[NextToOpen]) = "missing"
    /\ log' = Append(log, Event("open_err", NextToOpen, 0))
    /\ filenames' = SubSeq(filenames, 1, NextToOpen - 1)
                        \o SubSeq(filenames, NextToOpen + 1, Len(filenames))
    /\ pc' = IF NextToOpen = Len(filenames) /\ Len(buffers) > 0 THEN "count"
             ELSE IF NextToOpen = Len(filenames) THEN "failed"
             ELSE "open"
    /\ status' = IF NextToOpen = Len(filenames) /\ Len(buffers) = 0 THEN "err"
                 ELSE status
    /\ UNCHANGED <<args, argi, modes, stdin, buffers, bi, pos, line_buf,
                   count, results, summary, stdout>>

\* File::open(&filename)? returns the error from main
OpenFail ==
    /\ pc = "open"
    /\ NextToOpen <= Len(filenames)
    /\ FileKind(filenames[NextToOpen]) = "missing"
    /\ log' = Append(log, Event("open_err", NextToOpen, 0))
    /\ pc' = "failed"
    /\ status' = "err"
    /\ UNCHANGED <<args, argi, modes, filenames, stdin, buffers, bi, pos, line_buf,
                   count, results, summary, stdout>>

(***************************************************************************)
(* count_buf, one handler per step of its loop.                            *)
(***************************************************************************)
CountStart ==
    /\ pc = "count"
    /\ bi <= Len(buffers)
    /\ count' = [DefaultCountResult EXCEPT !.summary = buffers[bi].filename]
    /\ line_buf' = <<>>
    /\ pos' = 1
    /\ pc' = "read"
    /\ UNCHANGED <<args, argi, modes, filenames, stdin, buffers, bi, results,
                   summary, stdout, status, log>>

\* read_until appends the segment to line_buf
Filled(buf, data, p) == buf \o read_until(data, p)

\* variant: a line is counted only when its line feed was read
CountSegment_NewlineOnly(cnt, buf, s) ==
    [cnt EXCEPT !.lines = @ + (IF buf[Len(buf)] = LF THEN 1 ELSE 0),
                !.bytes = @ + Len(buf),
                !.words = @ + split_whitespace_count(s),
                !.chars = @ + chars_count(s)]

\* the body of the loop: the counters after one segment, s being its text
CountSegment(cnt, buf, s) ==
    [cnt EXCEPT !.lines = @ + 1,
                !.bytes = @ + Len(buf),
                !.words = @ + split_whitespace_count(s),
                !.chars = @ + chars_count(s)]

\* variant: line_buf is not cleared after a segment
Cleared_Kept(buf) == buf

\* line_buf = s.into_bytes(); line_buf.clear()
Cleared(buf) == <<>>

ReadSegment ==
    /\ pc = "read"
    /\ buffers[bi].kind = "stream"
    /\ LET n   == Len(read_until(buffers[bi].data, pos))
           buf == Filled(line_buf, buffers[bi].data, pos)
           s   == from_utf8(buf)
       IN  /\ n # 0
           /\ s # Invalid
           /\ count' = CountSegment(count, buf, s)
           /\ line_buf' = Cleared(buf)
           /\ pos' = pos + n
           /\ log' = Append(log, Event("read", bi, n))
    /\ UNCHANGED <<pc, args, argi, modes, filenames, stdin, buffers, bi, results,
                   summary, stdout, status>>

\* variant: a segment that is not UTF-8 is counted by its bytes and skipped
DecodeFail_Lossy ==
    /\ pc = "read"
    /\ buffers[bi].kind = "stream"
    /\ LET n   == Len(read_until(buffers[bi].data, pos))
           buf == Filled(line_buf, buffers[bi].data, pos)
       IN  /\ n # 0
           /\ from_utf8(buf) = Invalid
           /\ count' = [count EXCEPT !.lines = @ + 1, !.bytes = @ + Len(buf)]
           /\ line_buf' = <<>>
           /\ pos' = pos + n
           /\ log' = Append(log, Event("read", bi, n))
    /\ UNCHANGED <<pc, args, argi, modes, filenames, stdin, buffers, bi, results,
                   summary, stdout, status>>

\* String::from_utf8(line_buf).expect("from_utf8 failed") panics
DecodeFail ==
    /\ pc = "read"
    /\ buffers[bi].kind = "stream"
    /\ LET n   == Len(read_until(buffers[bi].data, pos))
           buf == Filled(line_buf, buffers[bi].data, pos)
       IN  /\ n # 0
           /\ from_utf8(buf) = Invalid
           /\ count' = [count EXCEPT !.lines = @ + 1, !.bytes = @ + Len(buf)]
           /\ line_buf' = buf
           /\ pos' = pos + n
           /\ log' = Append(log, Event("read", bi, n))
    /\ pc' = "panicked"
    /\ status' = PanicUtf8
    /\ UNCHANGED <<args, argi, modes, filenames, stdin, buffers, bi, results,
                   summary, stdout>>

\* read_until(..).expect("read_until failed") panics
ReadFail ==
    /\ pc = "read"
    /\ buffers[bi].kind = "dir"
    /\ log' = Append(log, Event("read_err", bi, 0))
    /\ pc' = "panicked"
    /\ status' = PanicRead
    /\ UNCHANGED <<args, argi, modes, filenames, stdin, buffers, bi, pos, line_buf,
                   count, results, summary, stdout>>

\* read_until returned 0: count_buf returns, collect() keeps the result
CountReturn ==
    /\ pc = "read"
    /\ buffers[bi].kind = "stream"
    /\ Len(read_until(buffers[bi].data, pos)) = 0
    /\ results' = Append(results, count)
    /\ log' = Append(log, Event("read", bi, 0))
    /\ bi' = bi + 1
    /\ pc' = IF bi = Len(buffers) THEN "format" ELSE "count"
    /\ UNCHANGED <<args, argi, modes, filenames, stdin, buffers, pos, line_buf,
                   count, summary, stdout, status>>

(***************************************************************************)
(* main: the report.                                                       *)
(***************************************************************************)
FormatSummary ==
    /\ pc = "format"
    /\ LET s == format_summary(results, modes)
       IN  IF s = Panic
           THEN /\ pc' = "panicked"
                /\ status' = PanicMax
                /\ UNCHANGED summary
           ELSE /\ pc' = "print"
                /\ summary' = s
                /\ UNCHANGED status
    /\ UNCHANGED <<args, argi, modes, filenames, stdin, buffers, bi, pos, line_buf,
                   count, results, stdout, log>>

\* println!("{}", summary); Ok(())
WriteReport ==
    /\ pc = "print"
    /\ stdout' = Append(stdout, summary \o <<"\n">>)
    /\ log' = Append(log, Event("write", 0, Len(summary) + 1))
    /\ status' = "ok"
    /\ pc' = "done"
    /\ UNCHANGED <<args, argi, modes, filenames, stdin, buffers, bi, pos, line_buf,
                   count, results, summary>>

Next ==
    \/ ParseArg
    \/ DefaultModes
    \/ OpenStdin
    \/ OpenFile
    \/ OpenFail
    \/ CountStart
    \/ ReadSegment
    \/ DecodeFail
    \/ ReadFail
    \/ CountReturn
    \/ FormatSummary
    \/ WriteReport

\* a whole run of main, from the command line to the exit
Spec == Init /\ [][Next]_vars

(***************************************************************************)
(* count_buf on its own: one anonymous source holding any enumerated       *)
(* stream.                                                                 *)
(***************************************************************************)
CountInit ==
    /\ pc = "count"
    /\ args = <<>>
    /\ argi = 1
    /\ modes = DefaultModeList
    /\ filenames = <<>>
    /\ stdin \in Streams
    /\ buffers = <<[filename |-> None, kind |-> "stream", data |-> stdin]>>
    /\ bi = 1
    /\ pos = 1
    /\ line_buf = <<>>
    /\ count = DefaultCountResult
    /\ results = <<>>
    /\ summary = <<>>
    /\ stdout = <<>>
    /\ status = "running"
    /\ log = <<>>

CountNext == CountStart \/ ReadSegment \/ DecodeFail \/ CountReturn

CountSpec == CountInit /\ [][CountNext]_vars

(***************************************************************************)
(* format_summary on its own: any list of results count_buf can return,    *)
(* any list of modes.                                                      *)
(***************************************************************************)
Result(summary_, lines_, words_, chars_, bytes_) ==
    [summary |-> summary_, lines |-> lines_, words |-> words_, chars |-> chars_,
     bytes |-> bytes_]

ResultPool ==
    { Result(None, 0, 0, 0, 0),
      Result(Some(<<"a">>), 1, 1, 3, 3),
      Result(Some(<<"a">>), 9, 9, 95, 100),
      Result(None, 5, 95, 1000, 1234),
      Result(Some(<<"b">>), 99, 0, 99, 99) }

FmtInit ==
    /\ pc = "format"
    /\ args = <<>>
    /\ argi = 1
    /\ modes \in SeqsUpTo(Mode, MaxModes)
    /\ filenames = <<>>
    /\ stdin = <<>>
    /\ buffers = <<>>
    /\ bi = 1
    /\ pos = 1
    /\ line_buf = <<>>
    /\ count = DefaultCountResult
    /\ results \in SeqsUpTo(ResultPool, MaxResults)
    /\ summary = <<>>
    /\ stdout = <<>>
    /\ status = "running"
    /\ log = <<>>

FmtNext == FormatSummary \/ WriteReport

FmtSpec == FmtInit /\ [][FmtNext]_vars

(***************************************************************************)
(* Reading a report back: its rows, and the label and the numbers of a     *)
(* row.                                                                    *)
(***************************************************************************)
RECURSIVE SplitOn(_, _)
SplitOn(s, sep) ==
    IF \E i \in 1..Len(s) : s[i] = sep
    THEN LET i == CHOOSE i \in 1..Len(s) :
                     s[i] = sep /\ \A j \in 1..(i - 1) : s[j] # sep
         IN  <<SubSeq(s, 1, i - 1)>> \o SplitOn(SubSeq(s, i + 1, Len(s)), sep)
    ELSE <<s>>

DigitValue(c) ==
    CASE c = "0" -> 0 [] c = "1" -> 1 [] c = "2" -> 2 [] c = "3" -> 3
      [] c = "4" -> 4 [] c = "5" -> 5 [] c = "6" -> 6 [] c = "7" -> 7
      [] c = "8" -> 8 [] c = "9" -> 9 [] OTHER -> -1

IsNumber(w) == w # <<>> /\ \A i \in 1..Len(w) : DigitValue(w[i]) >= 0

RECURSIVE ParseNumber(_)
ParseNumber(w) ==
    IF Len(w) = 1 THEN DigitValue(w[1])
    ELSE 10 * ParseNumber(SubSeq(w, 1, Len(w) - 1)) + DigitValue(w[Len(w)])

ReportRows == SplitOn(summary, "\n")

\* the text after the last space of a row
RowLabel(row) == LET ws == SplitOn(row, " ") IN ws[Len(ws)]

\* the numbers before the label of a row
RowNumbers(row) ==
    LET ws     == SplitOn(row, " ")
        fields == SelectSeq(SubSeq(ws, 1, Len(ws) - 1), LAMBDA w : w # <<>>)
    IN  [k \in 1..Len(fields) |->
            IF IsNumber(fields[k]) THEN ParseNumber(fields[k]) ELSE -1]

\* the metrics of a set in the order Lines, Words, Characters, Bytes
Canonical(S) ==
    SelectSeq(<<"Lines", "Words", "Chars", "Bytes">>, LAMBDA m : m \in S)

ModeSet(ms) == {ms[i] : i \in 1..Len(ms)}

Counter(result, m) ==
    IF m = "Lines" THEN result.lines
    ELSE IF m = "Words" THEN result.words
    ELSE IF m = "Chars" THEN result.chars
    ELSE result.bytes

\* the sum of one counter over a list of results
RECURSIVE SumOf(_, _)
SumOf(rs, m) ==
    IF rs = <<>> THEN 0 ELSE Counter(Head(rs), m) + SumOf(Tail(rs), m)

Projected(result, S) ==
    LET ms == Canonical(S) IN [k \in 1..Len(ms) |-> Counter(result, ms[k])]

LabelText(result) == IF result.summary = <<>> THEN <<>> ELSE result.summary[1]

\* format_summary has returned a report
Reported == pc \in {"print", "done"}

(***************************************************************************)
(* C1: format_summary appends a row labelled "Total" if and only if it is  *)
(* given more than one result; the per-source rows come first, in the      *)
(* order the results were given, the Total row is the last row, and each   *)
(* of its four counters is the sum of that counter over the per-source     *)
(* results.  With one result the report has one row and no Total row.      *)
(***************************************************************************)
C1_TotalRow ==
    Reported =>
        LET rows == ReportRows
            n    == Len(results)
            S    == ModeSet(modes)
        IN  /\ Len(rows) = IF n > 1 THEN n + 1 ELSE n
            /\ \A i \in 1..n :
                  /\ RowLabel(rows[i]) = LabelText(results[i])
                  /\ RowNumbers(rows[i]) = Projected(results[i], S)
            /\ n > 1 =>
                  /\ RowLabel(rows[n + 1]) = TotalLabel
                  /\ RowNumbers(rows[n + 1]) =
                        [k \in 1..Len(Canonical(S)) |-> SumOf(results, Canonical(S)[k])]
                  /\ \A m \in Mode :
                        Counter(WithTotal(results)[n + 1], m) = SumOf(results, m)
            /\ n = 1 => Len(WithTotal(results)) = 1

C1_Witness ==
    /\ pc = "done"
    /\ Len(results) = 2
    /\ results[1] # results[2]
    /\ Len(ReportRows) = 3
    /\ RowLabel(ReportRows[3]) = TotalLabel
    /\ modes = <<"Bytes", "Lines">>

(***************************************************************************)
(* C2: for every sequence of flags on the command line, in any order and   *)
(* with any repetitions, the numeric columns of every row of the report    *)
(* are the distinct requested metrics in the order Lines, Words,           *)
(* Characters, Bytes, one column each and no other column, and the report  *)
(* is the one the canonical list of the same set of metrics produces.      *)
(***************************************************************************)
FlagMetric(token) ==
    IF token[2] = "l" THEN "Lines"
    ELSE IF token[2] = "w" THEN "Words"
    ELSE IF token[2] = "m" THEN "Chars"
    ELSE "Bytes"

\* the metrics a command line asks for (Lines, Words, Bytes when it names none)
Requested(as) ==
    LET given == {FlagMetric(as[i]) : i \in {j \in 1..Len(as) : as[j] \in FlagTokens}}
    IN  IF given = {} THEN {"Lines", "Words", "Bytes"} ELSE given

C2_ColumnOrder ==
    Reported =>
        LET rows == ReportRows
            S    == Requested(args)
        IN  /\ \A i \in 1..Len(results) :
                  RowNumbers(rows[i]) = Projected(results[i], S)
            /\ \A i \in 1..Len(rows) : Len(RowNumbers(rows[i])) = Cardinality(S)
            /\ summary = format_summary(results, Canonical(S))

C2_Witness ==
    /\ pc = "done"
    /\ args = << <<"-", "c">>, <<"-", "l">>, <<"-", "c">> >>
    /\ stdin = AGrave
    /\ RowNumbers(ReportRows[1]) = <<1, 6>>

(***************************************************************************)
(* C3: every numeric field of every row of the report, the Total row       *)
(* included, is right-aligned and space-padded to one shared width: the    *)
(* number of decimal digits of the largest displayed count over all rows   *)
(* and all displayed metrics.                                              *)
(***************************************************************************)
Pow10(w) == <<1, 10, 100, 1000, 10000, 100000, 1000000>>[w + 1]

DigitsOf(n) == CHOOSE w \in 1..6 : n < Pow10(w) /\ (w = 1 \/ n >= Pow10(w - 1))

\* the results the report shows: the per-source results, then their sum
ShownResults ==
    IF Len(results) > 1
    THEN Append(results,
                [summary |-> <<TotalLabel>>,
                 lines |-> SumOf(results, "Lines"), words |-> SumOf(results, "Words"),
                 chars |-> SumOf(results, "Chars"), bytes |-> SumOf(results, "Bytes")])
    ELSE results

ShownValues(S) ==
    {Counter(ShownResults[i], m) : i \in 1..Len(ShownResults), m \in S}

SharedWidth(S) ==
    DigitsOf(CHOOSE v \in ShownValues(S) : \A u \in ShownValues(S) : u <= v)

\* field is the number v right-aligned in exactly W characters
RightAligned(field, v, W) ==
    LET d == DigitsOf(v)
    IN  /\ Len(field) = W
        /\ d <= W
        /\ \A j \in 1..(W - d) : field[j] = " "
        /\ IsNumber(SubSeq(field, W - d + 1, W))
        /\ ParseNumber(SubSeq(field, W - d + 1, W)) = v

C3_SharedWidth ==
    Reported =>
        LET rows  == ReportRows
            S     == ModeSet(modes)
            ms    == Canonical(S)
            W     == SharedWidth(S)
        IN  /\ Len(rows) = Len(ShownResults)
            /\ \A i \in 1..Len(rows) :
                  /\ Len(rows[i]) = Len(ms) * (W + 1) + Len(LabelText(ShownResults[i]))
                  /\ \A k \in 1..Len(ms) :
                        /\ RightAligned(
                               SubSeq(rows[i], (k - 1) * (W + 1) + 1, (k - 1) * (W + 1) + W),
                               Counter(ShownResults[i], ms[k]), W)
                        /\ rows[i][k * (W + 1)] = " "

\* the Total row alone has the widest value: it widens the rows before it
C3_Witness ==
    /\ pc = "done"
    /\ Len(results) = 2
    /\ modes = <<"Lines">>
    /\ results[1].lines = 9
    /\ results[2].lines = 1
    /\ ReportRows[1] = <<" ", "9", " ", "a">>
    /\ SharedWidth({"Lines"}) = 2

(***************************************************************************)
(* C4: for the single anonymous source holding "foo bar\nbaz\n" and no     *)
(* flags, the counters are lines = 2, words = 3, bytes = 12 and the one    *)
(* row of the report is exactly "2 3 12 ".                                 *)
(***************************************************************************)
FooBarBazRun == pc = "done" /\ args = <<>> /\ stdin = FooBarBaz

FooBarBazCounters ==
    /\ Len(results) = 1
    /\ results[1].summary = None
    /\ results[1].lines = 2
    /\ results[1].words = 3
    /\ results[1].bytes = 12

\* the claim as stated
C4_Original ==
    FooBarBazRun =>
        /\ FooBarBazCounters
        /\ summary = <<"2", " ", "3", " ", "1", "2", " ">>

\* C4, amended: the counters are lines = 2, words = 3, bytes = 12 and the one
\* row of the report is exactly " 2  3 12 ": every count is right-aligned to
\* the width of the widest count, 12, then comes one space and the empty label.
C4_Amended ==
    FooBarBazRun =>
        /\ FooBarBazCounters
        /\ summary = <<" ", "2", " ", " ", "3", " ", "1", "2", " ">>
        /\ stdout = <<summary \o <<"\n">>>>

C4_Witness == FooBarBazRun /\ Len(ReportRows) = 1 /\ Len(summary) = 9

(***************************************************************************)
(* C5: there is no partial success.  Either every requested source is      *)
(* opened and fully counted, one complete report is written and the run    *)
(* succeeds, or (a file fails to open, a read fails, a segment is not      *)
(* UTF-8) nothing is written to standard output and the run fails; a       *)
(* failure in a later source prints nothing for the sources counted        *)
(* before it.                                                              *)
(***************************************************************************)
\* the filename arguments, in order
FileArgs == SelectSeq(args, LAMBDA a : a \in FileTokens)

\* the bytes of the sources the command line asks for, in order
SourceData ==
    IF FileArgs = <<>> THEN <<stdin>>
    ELSE [i \in 1..Len(FileArgs) |-> FileData(FileArgs[i])]

SourceGood(i) ==
    /\ FileArgs # <<>> => FileKind(FileArgs[i]) = "stream"
    /\ from_utf8(SourceData[i]) # Invalid

AllSourcesGood == \A i \in 1..Len(SourceData) : SourceGood(i)

\* main has returned or panicked
Finished == pc \in {"done", "failed", "panicked"}

\* a run that has not finished is at a step it can take
CanStep ==
    /\ pc \in {"args", "open", "count", "read", "format", "print"}
    /\ pc = "open" => Len(filenames) = 0 \/ NextToOpen <= Len(filenames)
    /\ pc \in {"count", "read"} => bi <= Len(buffers)

C5_AllOrNothing ==
    /\ stdout # <<>> =>
          /\ status = "ok"
          /\ AllSourcesGood
          /\ Len(results) = Len(SourceData)
          /\ \A i \in 1..Len(results) : results[i].bytes = Len(SourceData[i])
          /\ stdout = <<summary \o <<"\n">>>>
          /\ Len(ReportRows) = Len(ShownResults)
    /\ status # "ok" => stdout = <<>>
    /\ ~Finished => CanStep
    /\ Finished =>
          /\ status # "running"
          /\ status = "ok" <=> AllSourcesGood
          /\ status = "ok" => stdout # <<>>

\* the second source fails after the first was counted
C5_Witness ==
    /\ Finished
    /\ status = PanicUtf8
    /\ Len(results) = 1
    /\ results[1].bytes = 3
    /\ bi = 2
    /\ stdout = <<>>

(***************************************************************************)
(* C6: when count_buf returns a result, its bytes counter is the exact     *)
(* byte length of the whole stream, terminators included; an empty stream  *)
(* yields bytes = lines = words = chars = 0.                               *)
(***************************************************************************)
\* count_buf has returned for the one source of the stream
Returned == pc = "format" /\ Len(results) = 1

C6_ByteLength ==
    Returned =>
        /\ results[1].bytes = Len(stdin)
        /\ stdin = <<>> =>
              /\ results[1].lines = 0
              /\ results[1].words = 0
              /\ results[1].chars = 0

C6_Witness ==
    /\ Returned
    /\ stdin = <<97, 10, 194, 160, 10>>
    /\ results[1].bytes = 5

(***************************************************************************)
(* C7: when count_buf returns lines = n, n is the number of line feeds of  *)
(* the stream, plus one if the stream is not empty and does not end in a   *)
(* line feed; a non-empty stream never yields lines = 0.                   *)
(***************************************************************************)
LineFeeds(data) == Cardinality({i \in 1..Len(data) : data[i] = 10})

Unterminated(data) == data # <<>> /\ data[Len(data)] # 10

C7_LineCount ==
    Returned =>
        /\ results[1].lines =
              LineFeeds(stdin) + (IF Unterminated(stdin) THEN 1 ELSE 0)
        /\ stdin # <<>> => results[1].lines > 0

C7_Witness ==
    /\ Returned
    /\ stdin = <<97, 10, 10, 97>>
    /\ results[1].lines = 3

(***************************************************************************)
(* C8: line-wise counting is additive.  For every valid UTF-8 stream the   *)
(* words counter is the number of maximal whitespace-delimited non-empty   *)
(* tokens of the whole stream taken as one text, and the chars counter is  *)
(* the number of code points of the whole stream.                          *)
(***************************************************************************)
\* the tokens of a text: the positions where a run of non-whitespace starts
TokenStarts(text) ==
    {i \in 1..Len(text) :
        /\ ~is_whitespace(text[i])
        /\ i = 1 \/ is_whitespace(text[i - 1])}

C8_Additive ==
    /\ Returned =>
          /\ from_utf8(stdin) # Invalid
          /\ results[1].words = Cardinality(TokenStarts(from_utf8(stdin)))
          /\ results[1].chars = Len(from_utf8(stdin))
    /\ pc = "panicked" => from_utf8(stdin) = Invalid

\* a letter, a space of two bytes, a line feed, a letter
C8_Witness ==
    /\ Returned
    /\ stdin = <<97, 194, 160, 10, 97>>
    /\ results[1].words = 2
    /\ results[1].chars = 4

(***************************************************************************)
(* C9: with filename arguments, the files are opened in argument order and *)
(* every open happens before any source is read; if an open fails no       *)
(* source is ever read.  Sources are counted one at a time in argument     *)
(* order, each drained to end of stream before the next is read, and the   *)
(* report is written only after the last source is drained.                *)
(***************************************************************************)
IsRead(e) == e.ev \in {"read", "read_err"}

\* source src was read to end of stream before position j of the log
DrainedBefore(src, j) ==
    \E k \in 1..(j - 1) : log[k] = Event("read", src, 0)

Opens == SelectSeq(log, LAMBDA e : e.ev = "open")

C9_Ordering ==
    /\ \A i, j \in 1..Len(log) :
          /\ log[i].ev \in {"open", "open_err"} /\ IsRead(log[j]) => i < j
          /\ IsRead(log[i]) /\ IsRead(log[j]) /\ i < j => log[i].src <= log[j].src
          /\ log[i].ev = "write" => j <= i
    /\ \A k \in 1..Len(Opens) :
          /\ Opens[k].src = k
          /\ buffers[k].filename = <<FileArgs[k]>>
    /\ (\E i \in 1..Len(log) : log[i].ev = "open_err") =>
          /\ \A j \in 1..Len(log) : ~IsRead(log[j]) /\ log[j].ev # "write"
          /\ results = <<>>
    /\ \A j \in 1..Len(log) :
          /\ IsRead(log[j]) =>
                /\ FileArgs # <<>> => Len(Opens) = Len(FileArgs)
                /\ \A src \in 1..(log[j].src - 1) : DrainedBefore(src, j)
          /\ log[j].ev = "write" =>
                \A src \in 1..Len(SourceData) : DrainedBefore(src, j)

\* two files were opened, then the first was drained, then the second was read
C9_Witness ==
    /\ Len(log) >= 5
    /\ log[1] = Event("open", 1, 0)
    /\ log[2] = Event("open", 2, 0)
    /\ log[3].ev = "read" /\ log[3].src = 1
    /\ log[4] = Event("read", 1, 0)
    /\ log[5].ev = "read" /\ log[5].src = 2
    /\ FileArgs = << <<"a">>, <<"b">> >>

(***************************************************************************)
(* C10: on every command line on which all sources open and count,         *)
(* format_summary is called with a non-empty list of results and a         *)
(* non-empty list of modes, so the set of displayed counts is never empty  *)
(* and the expect on its maximum never fails.                              *)
(***************************************************************************)
C10_MaxNeverFails ==
    /\ pc = "format" =>
          /\ Len(results) >= 1
          /\ Len(modes) >= 1
          /\ CountLens(OutputCounts(WithTotal(results), PrepareModes(modes))) # {}
    /\ status # PanicMax

\* format_summary is reached from a command line without arguments
C10_Witness ==
    /\ pc = "format"
    /\ args = <<>>
    /\ modes = DefaultModeList
    /\ Len(results) = 1

====
